---- MODULE Spec2Model ----
(***************************************************************************)
(* Model of lead_radar_settings.js: the form script of "Lead Radar         *)
(* Settings".  On every form refresh it registers one custom button; the   *)
(* button's click handler is an async function that awaits the remote      *)
(* call ftg_lead_radar.api.publish_config, shows a msgprint and awaits     *)
(* frm.reload_doc().                                                       *)
(*                                                                         *)
(* JavaScript runs each handler segment between two awaits to completion   *)
(* on the single UI thread, so one action of the model is one such segment *)
(* (or one event delivered by the host: a refresh, a click, the settling   *)
(* of a promise).  Strings are sequences of one-character tokens; the      *)
(* fixed pieces of markup are single tokens.                               *)
(***************************************************************************)
EXTENDS Naturals, Sequences, FiniteSets

\* Bounds of the model.
MaxClicks == 2
MaxUrlLen == 2

\* buttons       the custom buttons the form holds (by label)
\* nclicks       the number of invocations of the click handler so far
\* pc            where each invocation stands: "idle" (not started),
\*               "await_call", "await_reload", "done", or "rejected" (its
\*               promise rejected: nothing in the script catches it)
\* hist          per invocation, in order: the calls it made (call, msgprint,
\*               reload_doc), what it saw settle, and an error it threw
\* resp          per invocation, the response object r as the handler holds it
\* freeze_count  the host's freeze: raised per call issued with freeze: true,
\*               lowered when that call settles; the UI is frozen while > 0
\* doc           the version of the document the form shows
\* store         the version of the document in the store
VARIABLES buttons, nclicks, pc, hist, resp, freeze_count, doc, store

vars == <<buttons, nclicks, pc, hist, resp, freeze_count, doc, store>>

Invocations == 1..MaxClicks

-----------------------------------------------------------------------------
\* JavaScript values, as far as a JSON response can hold them.

NULL == [t |-> "null", s |-> <<>>, f |-> {}]
UNDEF == [t |-> "undefined", s |-> <<>>, f |-> {}]
Str(s) == [t |-> "string", s |-> s, f |-> {}]
\* An object is its set of <<key, value>> pairs.
Obj(f) == [t |-> "object", s |-> <<>>, f |-> f]

\* v?.key : undefined when v is null or undefined, else the property read
\* (undefined for a property that is absent).
OptChain(v, key) ==
    IF v.t \in {"null", "undefined"} THEN UNDEF
    ELSE IF \E p \in v.f : p[1] = key
         THEN (CHOOSE p \in v.f : p[1] = key)[2]
         ELSE UNDEF

\* if (v): null, undefined and the empty string are falsy.
Truthy(v) ==
    CASE v.t \in {"null", "undefined"} -> FALSE
      [] v.t = "string" -> v.s # <<>>
      [] OTHER -> TRUE

\* A lone UTF-16 surrogate, which has no UTF-8 (hence no percent-encoded) form.
LoneSurrogate == "<U+D800>"

\* "a" is unescaped, "?" is reserved, " " and "%" are escaped by encodeURI.
Chars == {"a", "?", " ", "%", LoneSurrogate}

RECURSIVE SeqsUpTo(_)
SeqsUpTo(n) ==
    IF n = 0 THEN {<<>>}
    ELSE LET shorter == SeqsUpTo(n - 1)
         IN shorter \cup {Append(s, c) : s \in {x \in shorter : Len(x) = n - 1}, c \in Chars}

Urls == SeqsUpTo(MaxUrlLen)

\* The URLs tried where invocations interleave: empty, plain, one with a space,
\* a query and a percent sign, and one that is not well-formed.
SampleUrls == {<<>>, <<"a">>, <<"a", " ", "?", "%">>, <<LoneSurrogate>>}

WithUrl(u) == Obj({<<"message", Obj({<<"commit_url", Str(u)>>})>>})

\* The responses frappe.call may resolve with: null, no message, a null or
\* empty or string message, and a message whose commit_url is null or a string.
Responses ==
    {NULL, Obj({}), Obj({<<"message", NULL>>}), Obj({<<"message", Obj({})>>}),
     Obj({<<"message", Str(<<"a">>)>>}),
     Obj({<<"message", Obj({<<"commit_url", NULL>>})>>})}
    \cup {WithUrl(u) : u \in SampleUrls}

\* Every commit_url up to the length bound.
UrlResponses == {WithUrl(u) : u \in Urls}

-----------------------------------------------------------------------------
\* encodeURI: characters of the unescaped and reserved sets are kept, every
\* other character is replaced by the %XX escapes of its UTF-8 bytes, and a
\* lone surrogate raises URIError.
EncodeChar(c) ==
    CASE c = " " -> <<"%", "2", "0">>
      [] c = "%" -> <<"%", "2", "5">>
      [] OTHER -> <<c>>

RECURSIVE EncodeAll(_)
EncodeAll(s) ==
    IF s = <<>> THEN <<>> ELSE EncodeChar(Head(s)) \o EncodeAll(Tail(s))

encodeURI_identity(s) ==
    [ok |-> \A k \in 1..Len(s) : s[k] # LoneSurrogate, s |-> s]

encodeURI(s) ==
    IF \E k \in 1..Len(s) : s[k] = LoneSurrogate
    THEN [ok |-> FALSE, s |-> <<>>]
    ELSE [ok |-> TRUE, s |-> EncodeAll(s)]

\* __(txt, [arg]): the text with its {0} placeholder replaced by the argument
\* (the translation itself is taken to be the identity).
RECURSIVE Format(_, _)
Format(txt, arg) ==
    IF txt = <<>> THEN <<>>
    ELSE (IF Head(txt) = "{0}" THEN arg ELSE <<Head(txt)>>) \o Format(Tail(txt), arg)

AOpen == "<a href=\""
AMid == "\" target=\"_blank\" rel=\"noreferrer\">"
AClose == "</a>"

Anchor(href, text) == <<AOpen>> \o href \o <<AMid>> \o text \o <<AClose>>

ButtonLabel == "Publish GitOps Config"

\* The options of the one frappe.call: the method, freeze, and no args.
CallOpts_nofreeze ==
    [method |-> "ftg_lead_radar.api.publish_config", freeze |-> FALSE, args |-> {}]

CallOpts_args ==
    [method |-> "ftg_lead_radar.api.publish_config", freeze |-> TRUE,
     args |-> {"doc"}]

CallOpts ==
    [method |-> "ftg_lead_radar.api.publish_config", freeze |-> TRUE, args |-> {}]

MsgUrl(href, text) ==
    [ev |-> "msgprint", title |-> "Published",
     message |-> Format(<<"Committed to GitHub: ", "{0}">>, Anchor(href, text)),
     indicator |-> "green"]

MsgPlain ==
    [ev |-> "msgprint", title |-> "Published",
     message |-> <<"Committed to GitHub.">>, indicator |-> "green"]

ReloadDoc == [ev |-> "reload_doc"]
Throw == [ev |-> "throw", error |-> "URIError"]

\* The handler from the resumption after `await frappe.call` to its next
\* suspension: what it does, in order, where it stops, and the response
\* object as it leaves it.
AfterCall_reload_first(r) ==
    LET commit_url == OptChain(OptChain(r, "message"), "commit_url")
        href == encodeURI(commit_url.s)
    IN IF Truthy(commit_url)
       THEN IF href.ok
            THEN [effects |-> <<ReloadDoc, MsgUrl(href.s, commit_url.s)>>,
                  pc |-> "await_reload", r |-> r]
            ELSE [effects |-> <<Throw>>, pc |-> "rejected", r |-> r]
       ELSE [effects |-> <<ReloadDoc, MsgPlain>>, pc |-> "await_reload", r |-> r]

AfterCall_yield(r) ==
    LET commit_url == OptChain(OptChain(r, "message"), "commit_url")
        href == encodeURI(commit_url.s)
    IN IF Truthy(commit_url)
       THEN IF href.ok
            THEN [effects |-> <<MsgUrl(href.s, commit_url.s)>>,
                  pc |-> "await_reload", r |-> r]
            ELSE [effects |-> <<Throw>>, pc |-> "rejected", r |-> r]
       ELSE [effects |-> <<MsgPlain>>, pc |-> "await_reload", r |-> r]

AfterCall_always_link(r) ==
    LET commit_url == OptChain(OptChain(r, "message"), "commit_url")
        href == encodeURI(commit_url.s)
    IN IF href.ok
       THEN [effects |-> <<MsgUrl(href.s, commit_url.s), ReloadDoc>>,
             pc |-> "await_reload", r |-> r]
       ELSE [effects |-> <<Throw>>, pc |-> "rejected", r |-> r]

AfterCall(r) ==
    LET commit_url == OptChain(OptChain(r, "message"), "commit_url")
        href == encodeURI(commit_url.s)
    IN IF Truthy(commit_url)
       THEN IF href.ok
            THEN [effects |-> <<MsgUrl(href.s, commit_url.s), ReloadDoc>>,
                  pc |-> "await_reload", r |-> r]
            ELSE [effects |-> <<Throw>>, pc |-> "rejected", r |-> r]
       ELSE [effects |-> <<MsgPlain, ReloadDoc>>, pc |-> "await_reload", r |-> r]

\* The handler when `await frappe.call` rejects: there is no try/catch, so the
\* rejection leaves the async function at once.
OnReject_caught ==
    [effects |-> <<MsgPlain, ReloadDoc>>, pc |-> "await_reload"]

OnReject == [effects |-> <<>>, pc |-> "rejected"]

-----------------------------------------------------------------------------
Init ==
    /\ buttons = {}
    /\ nclicks = 0
    /\ pc = [i \in Invocations |-> "idle"]
    /\ hist = [i \in Invocations |-> <<>>]
    /\ resp = [i \in Invocations |-> UNDEF]
    /\ freeze_count = 0
    /\ doc = 0
    /\ store = 0

\* refresh(frm): the host fires it whenever the form is displayed; the script
\* registers its button (the host keeps one button per label).
Refresh ==
    /\ buttons' = buttons \cup {ButtonLabel}
    /\ UNCHANGED <<nclicks, pc, hist, resp, freeze_count, doc, store>>

\* A click on the button: the handler starts, issues frappe.call and suspends
\* at the await.  The host raises the freeze when the call asks for it.
Click ==
    /\ ButtonLabel \in buttons
    /\ nclicks < MaxClicks
    /\ nclicks' = nclicks + 1
    /\ pc' = [pc EXCEPT ![nclicks + 1] = "await_call"]
    /\ hist' = [hist EXCEPT ![nclicks + 1] = <<[ev |-> "call", opts |-> CallOpts]>>]
    /\ freeze_count' = freeze_count + (IF CallOpts.freeze THEN 1 ELSE 0)
    /\ UNCHANGED <<buttons, resp, doc, store>>

Unfreeze(i) ==
    IF hist[i][1].opts.freeze THEN freeze_count - 1 ELSE freeze_count

\* The remote call of invocation i resolves with r: the host lowers the
\* freeze, the server has published (and may have changed the stored
\* document), and the handler resumes and runs to its next suspension.
CallResolve(i, r) ==
    /\ pc[i] = "await_call"
    /\ freeze_count' = Unfreeze(i)
    /\ \E changed \in {0, 1} : store' = store + changed
    /\ hist' = [hist EXCEPT ![i] = @ \o <<[ev |-> "resolve", r |-> r]>>
                                     \o AfterCall(r).effects]
    /\ pc' = [pc EXCEPT ![i] = AfterCall(r).pc]
    /\ resp' = [resp EXCEPT ![i] = AfterCall(r).r]
    /\ UNCHANGED <<buttons, nclicks, doc>>

\* The remote call of invocation i rejects.
CallReject(i) ==
    /\ pc[i] = "await_call"
    /\ freeze_count' = Unfreeze(i)
    /\ hist' = [hist EXCEPT ![i] = @ \o <<[ev |-> "reject"]>> \o OnReject.effects]
    /\ pc' = [pc EXCEPT ![i] = OnReject.pc]
    /\ UNCHANGED <<buttons, nclicks, resp, doc, store>>

ReloadResolve_notify(i) ==
    /\ pc[i] = "await_reload"
    /\ doc' = store
    /\ buttons' = buttons \cup {ButtonLabel}
    /\ pc' = [pc EXCEPT ![i] = "done"]
    /\ hist' = [hist EXCEPT ![i] = @ \o <<[ev |-> "reloaded"], MsgPlain>>]
    /\ UNCHANGED <<nclicks, resp, freeze_count, store>>

\* frm.reload_doc() of invocation i resolves: the host has replaced the local
\* document by the stored one and refreshed the form; the handler ends.
ReloadResolve(i) ==
    /\ pc[i] = "await_reload"
    /\ doc' = store
    /\ buttons' = buttons \cup {ButtonLabel}
    /\ pc' = [pc EXCEPT ![i] = "done"]
    /\ hist' = [hist EXCEPT ![i] = Append(@, [ev |-> "reloaded"])]
    /\ UNCHANGED <<nclicks, resp, freeze_count, store>>

\* frm.reload_doc() of invocation i rejects: the handler's promise rejects.
ReloadReject(i) ==
    /\ pc[i] = "await_reload"
    /\ pc' = [pc EXCEPT ![i] = "rejected"]
    /\ hist' = [hist EXCEPT ![i] = Append(@, [ev |-> "reload_failed"])]
    /\ UNCHANGED <<buttons, nclicks, resp, freeze_count, doc, store>>

CallSettle(i) == CallReject(i) \/ \E r \in Responses : CallResolve(i, r)

Next ==
    \/ Refresh
    \/ Click
    \/ \E i \in Invocations, r \in Responses : CallResolve(i, r)
    \/ \E i \in Invocations : CallReject(i)
    \/ \E i \in Invocations : ReloadResolve(i)
    \/ \E i \in Invocations : ReloadReject(i)

Spec == Init /\ [][Next]_vars

\* The remote call settles: every outstanding call is eventually resolved or
\* rejected by the transport.
FairSpec == Spec /\ \A i \in Invocations : WF_vars(CallSettle(i))

\* One run of the handler on every commit_url up to the length bound.
NextUrl ==
    \/ Refresh
    \/ nclicks = 0 /\ Click
    \/ \E r \in UrlResponses : CallResolve(1, r)
    \/ ReloadResolve(1)
    \/ ReloadReject(1)

SpecUrl == Init /\ [][NextUrl]_vars

-----------------------------------------------------------------------------
\* What the history of an invocation holds.

Positions(h, e) == {k \in 1..Len(h) : h[k].ev = e}
CountIn(h, e) == Cardinality(Positions(h, e))
Count(i, e) == CountIn(hist[i], e)

\* The response invocation i received (the call has resolved).
Resolved(i) == Count(i, "resolve") > 0
Received(i) == hist[i][2].r
CommitUrl(i) == OptChain(OptChain(Received(i), "message"), "commit_url")

\* A publish_config call is outstanding.
Publishing == \E i \in Invocations : pc[i] = "await_call"

\* C1: in every execution of the handler, reload_doc never begins before the
\* msgprint has been issued, and the msgprint is never issued before the
\* remote call has resolved.
C1_Ordering ==
    \A i \in Invocations : \A k \in 1..Len(hist[i]) :
        /\ hist[i][k].ev = "reload_doc" =>
               \E j \in 1..(k - 1) : hist[i][j].ev = "msgprint"
        /\ hist[i][k].ev = "msgprint" =>
               \E j \in 1..(k - 1) : hist[i][j].ev = "resolve"

C1_Witness ==
    \E i \in Invocations : Count(i, "msgprint") = 1 /\ Count(i, "reload_doc") = 1

\* C2: when the remote call rejects, the handler shows no notification and
\* reloads nothing, issues no second call, and its promise is left rejected.
C2_RejectSilent ==
    \A i \in Invocations :
        Count(i, "reject") > 0 =>
            /\ Count(i, "msgprint") = 0
            /\ Count(i, "reload_doc") = 0
            /\ Count(i, "call") = 1
            /\ pc[i] = "rejected"

C2_Witness == \E i \in Invocations : Count(i, "reject") = 1

\* C3: one trigger gives exactly one remote call and, once the call has
\* resolved, exactly one notification and exactly one reload, whatever the
\* response.
C3_ExactlyOnce ==
    \A i \in Invocations :
        pc[i] # "idle" =>
            /\ Count(i, "call") = 1
            /\ Resolved(i) => Count(i, "msgprint") = 1 /\ Count(i, "reload_doc") = 1
            /\ ~Resolved(i) => Count(i, "msgprint") = 0 /\ Count(i, "reload_doc") = 0

-----------------------------------------------------------------------------
\* The parts of a notification body that holds an anchor.

HasAnchor(m) == \E k \in 1..Len(m) : m[k] \in {AOpen, AMid, AClose}
MidPos(m) == CHOOSE k \in 1..Len(m) : m[k] = AMid /\ \A j \in 1..(k - 1) : m[j] # AMid
HrefOf(m) == SubSeq(m, 3, MidPos(m) - 1)
TextOf(m) == SubSeq(m, MidPos(m) + 1, Len(m) - 1)

HexDigits == {"0", "2", "5"}

\* No character of h needs escaping: each is unescaped or reserved, or is a
\* percent sign that starts an escape.
FullyEscaped(h) ==
    \A k \in 1..Len(h) :
        /\ h[k] \notin {" ", LoneSurrogate}
        /\ h[k] = "%" => k + 2 <= Len(h) /\ h[k + 1] \in HexDigits /\ h[k + 2] \in HexDigits

RECURSIVE PercentDecode(_)
PercentDecode(h) ==
    IF h = <<>> THEN <<>>
    ELSE IF Head(h) = "%" /\ Len(h) >= 3
         THEN (CASE SubSeq(h, 2, 3) = <<"2", "0">> -> <<" ">>
                 [] SubSeq(h, 2, 3) = <<"2", "5">> -> <<"%">>
                 [] OTHER -> SubSeq(h, 1, 3))
              \o PercentDecode(SubSeq(h, 4, Len(h)))
         ELSE <<Head(h)>> \o PercentDecode(Tail(h))

\* The string has a percent-encoded form.
WellFormed(u) == \A k \in 1..Len(u) : u[k] # LoneSurrogate

AnchorFor(m, u) ==
    /\ Len(m) >= 5
    /\ m[1] = "Committed to GitHub: "
    /\ m[2] = AOpen
    /\ m[Len(m)] = AClose
    /\ \E k \in 3..(Len(m) - 1) : m[k] = AMid
    /\ FullyEscaped(HrefOf(m))
    /\ PercentDecode(HrefOf(m)) = u
    /\ TextOf(m) = u

C5_PlainWhenFalsy ==
    \A i \in Invocations :
        /\ \A k \in Positions(hist[i], "msgprint") :
               hist[i][k].title = "Published" /\ hist[i][k].indicator = "green"
        /\ (Resolved(i) /\ ~Truthy(CommitUrl(i))) =>
               /\ Count(i, "msgprint") = 1
               /\ \A k \in Positions(hist[i], "msgprint") :
                      /\ hist[i][k].message = <<"Committed to GitHub.">>
                      /\ ~HasAnchor(hist[i][k].message)
               /\ Count(i, "reload_doc") = 1

C5_Witness ==
    /\ \E i \in Invocations : Resolved(i) /\ Received(i) = NULL
    /\ \E i \in Invocations : Resolved(i) /\ Received(i) = WithUrl(<<>>)

\* C6: Idle becomes Publishing only by a click, a notification or a reload is
\* issued only in the step in which the call of that invocation resolves, and
\* every Publishing state is followed by an Idle one when calls settle.
C6_StateMachine ==
    /\ [][(~Publishing /\ Publishing') => nclicks' = nclicks + 1]_vars
    /\ [][\A i \in Invocations :
              (\/ CountIn(hist'[i], "msgprint") # CountIn(hist[i], "msgprint")
               \/ CountIn(hist'[i], "reload_doc") # CountIn(hist[i], "reload_doc"))
              => /\ pc[i] = "await_call"
                 /\ CountIn(hist'[i], "resolve") = 1
                 /\ CountIn(hist'[i], "reject") = 0]_vars
    /\ Publishing ~> ~Publishing

C6_Witness ==
    /\ ~Publishing
    /\ \E i \in Invocations : Count(i, "reject") = 1
    /\ \E i \in Invocations : Count(i, "resolve") = 1

C8_Freeze ==
    /\ \A i \in Invocations : pc[i] # "idle" => hist[i][1].opts.freeze
    /\ freeze_count = Cardinality({i \in Invocations : pc[i] = "await_call"})
    /\ Publishing <=> freeze_count > 0

C8_Witness ==
    /\ freeze_count = 1
    /\ \E i \in Invocations : pc[i] = "await_call"
    /\ \E i \in Invocations : Resolved(i)

\* C9: with two invocations whose calls both succeeded, each has issued its
\* own notification and its own reload.
C9_EachItsOwn ==
    \A i, j \in Invocations :
        (i # j /\ Resolved(i) /\ Resolved(j)) =>
            /\ Count(i, "msgprint") = 1 /\ Count(i, "reload_doc") = 1
            /\ Count(j, "msgprint") = 1 /\ Count(j, "reload_doc") = 1

\* Two publish_config calls are outstanding at once.
C9_TwoOutstanding ==
    \E i, j \in Invocations : i # j /\ pc[i] = "await_call" /\ pc[j] = "await_call"

\* C10: the local document changes only when a reload_doc started after a
\* resolved call completes, the response object stays as received, and the
\* remote call carries no parameters.
C10_Frame ==
    /\ [][doc' # doc =>
              \E i \in Invocations :
                  /\ pc[i] = "await_reload" /\ pc'[i] = "done"
                  /\ Resolved(i) /\ Count(i, "reload_doc") = 1]_vars
    /\ [][\A i \in Invocations : Resolved(i) => resp'[i] = resp[i]]_vars
    /\ [](\A i \in Invocations :
              /\ pc[i] # "idle" => hist[i][1].opts.args = {}
              /\ Resolved(i) => resp[i] = Received(i))

C10_Witness == doc # 0 /\ \E i \in Invocations : pc[i] = "done"

====
